---- MODULE Spec2Model ----
(***************************************************************************)
(* Model of the struct layout engine of re-utils: src/types.py (CType and  *)
(* CArray), src/structs.py (CStruct) and src/cstructkit/annotations.py,    *)
(* and of lz77_decompress of src/rom_utils.py.                             *)
(*                                                                         *)
(* registry is the list of CStruct subclasses defined so far, last the     *)
(* record of the most recent operation: its arguments, the exception it    *)
(* raised ("none" when it returned) and what it returned.                  *)
(*                                                                         *)
(* A Python str is a sequence of one-character strings, a bytes object a   *)
(* sequence of integers 0..255.  A class statement is modelled with its    *)
(* field list; user classes are @dataclass-decorated, as the synthetic     *)
(* class of CArray.__class_getitem__ is.  A field's type is a CType        *)
(* subclass, a previously defined CStruct subclass (an index into          *)
(* registry), or another class such as int.                                *)
(***************************************************************************)
EXTENDS Integers, Sequences, FiniteSets, TLC

VARIABLES registry, last

vars == <<registry, last>>

(* ------------------------------ bounds -------------------------------- *)
MaxTypes == 3
MaxFields == 2
MaxCount == 2
MaxCallTypes == 2
MaxShort == 1
MaxExtra == 1
MaxIndent == 1
MaxFieldsPerLine == 2
MaxDecompressedLength == 3
MaxBodyLength == 4

(* --------------------------- small helpers ---------------------------- *)
Max(a, b) == IF a >= b THEN a ELSE b

RECURSIVE Repeat(_, _)
\* Python's  s * n  on a str (the empty str for n <= 0)
Repeat(s, n) == IF n <= 0 THEN <<>> ELSE s \o Repeat(s, n - 1)

DigitChars == <<"0", "1", "2", "3", "4", "5", "6", "7", "8", "9",
                "a", "b", "c", "d", "e", "f">>

RECURSIVE DecStr(_)
\* str(n) / f'{n}' for n >= 0
DecStr(n) == IF n < 10 THEN <<DigitChars[n + 1]>>
             ELSE DecStr(n \div 10) \o <<DigitChars[(n % 10) + 1]>>

StartsWith(s, p) == Len(s) >= Len(p) /\ SubSeq(s, 1, Len(p)) = p

(* ------------------------------ CType --------------------------------- *)
CTypes == {"UInt8", "Int8", "UInt16", "Int16", "UInt32", "Int32"}

CTypeSize(t) ==
    CASE t \in {"UInt8", "Int8"} -> 1
      [] t \in {"UInt16", "Int16"} -> 2
      [] t \in {"UInt32", "Int32"} -> 4

CTypeFormat(t) ==
    CASE t = "UInt8" -> "B"
      [] t = "Int8" -> "b"
      [] t = "UInt16" -> "H"
      [] t = "Int16" -> "h"
      [] t = "UInt32" -> "I"
      [] t = "Int32" -> "i"

\* a padding that forgets the outer modulo: a full size at aligned offsets
CTypePaddingNeededNoWrap(t, offset) ==
    CTypeSize(t) - (offset % CTypeSize(t))

\* CType.padding_needed
CTypePaddingNeeded(t, offset) ==
    (CTypeSize(t) - (offset % CTypeSize(t))) % CTypeSize(t)

(* ---------------------------- field types ----------------------------- *)
CTypeField(t) == [kind |-> "CType", ctype |-> t, cls |-> 0]
CStructField(c) == [kind |-> "CStruct", ctype |-> "", cls |-> c]
OtherField == [kind |-> "other", ctype |-> "", cls |-> 0]

AnnotationData(name, size, offset) ==
    [name |-> name, size |-> size, offset |-> offset]

(* ----------------------- CStruct.__init_subclass__ -------------------- *)
\* a padding that is the distance from the previous boundary
PaddingNeededBackwards(alignment, offset) ==
    offset % alignment

\* CStruct.padding_needed; called only where cls._alignment > 0: the
\* caller raises ZeroDivisionError for an alignment of 0
PaddingNeeded(alignment, offset) ==
    (alignment - (offset % alignment)) % alignment

\* struct.calcsize of a '<' format: standard sizes, no implicit alignment
CodeSize(ch) ==
    CASE ch \in {"x", "B", "b"} -> 1
      [] ch \in {"H", "h"} -> 2
      [] ch \in {"I", "i"} -> 4
      [] OTHER -> 0

RECURSIVE CalcSize(_)
CalcSize(fmt) == IF fmt = <<>> THEN 0
                 ELSE CodeSize(Head(fmt)) + CalcSize(Tail(fmt))

\* the names given to the entries of a nested synthetic CArray
ArrayEntryName(name, entry, elem_size) ==
    LET idx == entry.offset \div elem_size
    IN  IF StartsWith(entry.name, <<"_">>)
        THEN name \o <<"_">> \o DecStr(idx)
        ELSE name \o <<"_">> \o DecStr(idx) \o <<"_">> \o entry.name

\* a flattening that takes the nested entries over as they are
NestedEntriesUnshifted(name, type, offset) ==
    [i \in 1..Len(type.annotation_data) |-> type.annotation_data[i]]

\* the annotation entries a nested struct field contributes
NestedEntries(name, type, offset) ==
    IF type.is_carray
    THEN LET num_elems == Len(type.fields)
             elem_size == type.size \div Max(1, num_elems)
         IN  [i \in 1..Len(type.annotation_data) |->
                 AnnotationData(
                     ArrayEntryName(name, type.annotation_data[i], elem_size),
                     type.annotation_data[i].size,
                     offset + type.annotation_data[i].offset)]
    ELSE [i \in 1..Len(type.annotation_data) |->
             AnnotationData(type.annotation_data[i].name,
                            type.annotation_data[i].size,
                            offset + type.annotation_data[i].offset)]

\* the loop's locals before the first field
LoopInit ==
    [offset |-> 0, fmt |-> <<"<">>, annotation_data |-> <<>>,
     alignment |-> 0, errors |-> <<>>, raised |-> "none"]

\* one iteration of the loop over get_type_hints(cls).items()
FieldStep(st, f, reg) ==
    IF st.raised # "none" THEN st
    ELSE IF f.type.kind = "CType"
    THEN LET t == f.type.ctype
             padding == CTypePaddingNeeded(t, st.offset)
             offset == st.offset + padding
         IN  [st EXCEPT
                 !.offset = offset + CTypeSize(t),
                 !.fmt = st.fmt \o Repeat(<<"x">>, padding)
                                \o <<CTypeFormat(t)>>,
                 !.annotation_data =
                     Append(st.annotation_data,
                            AnnotationData(f.name, CTypeSize(t), offset)),
                 !.alignment = Max(st.alignment, CTypeSize(t))]
    ELSE IF f.type.kind = "CStruct"
    THEN LET type == reg[f.type.cls]
         IN  IF type.alignment = 0
             THEN [st EXCEPT !.raised = "ZeroDivisionError"]
             ELSE LET padding == PaddingNeeded(type.alignment, st.offset)
                      offset == st.offset + padding
                  IN  [st EXCEPT
                          !.offset = offset + type.size,
                          !.fmt = st.fmt \o Repeat(<<"x">>, padding)
                                         \o Tail(type.format),
                          !.annotation_data =
                              st.annotation_data
                                  \o NestedEntries(f.name, type, offset),
                          !.alignment = Max(st.alignment, type.alignment)]
    ELSE [st EXCEPT !.errors = Append(st.errors, f.name)]

RECURSIVE FieldLoop(_, _, _)
FieldLoop(st, fields, reg) ==
    IF fields = <<>> THEN st
    ELSE FieldLoop(FieldStep(st, Head(fields), reg), Tail(fields), reg)

\* a class whose size is rounded up to a multiple of its alignment
CompiledClassPadded(fields, is_carray, st) ==
    [fields |-> fields, is_carray |-> is_carray,
     alignment |-> st.alignment, format |-> st.fmt,
     size |-> CalcSize(st.fmt)
                  + (IF st.alignment = 0 THEN 0
                     ELSE PaddingNeeded(st.alignment, CalcSize(st.fmt))),
     annotation_data |-> st.annotation_data]

\* the class object a class statement leaves behind when nothing is raised
CompiledClass(fields, is_carray, st) ==
    [fields |-> fields, is_carray |-> is_carray,
     alignment |-> st.alignment, format |-> st.fmt,
     size |-> CalcSize(st.fmt), annotation_data |-> st.annotation_data]

\* what the class statement raises: the loop's exception, else TypeError
\* with one message line per entry of errors
Raised(st) ==
    IF st.raised # "none" THEN st.raised
    ELSE IF Len(st.errors) > 0 THEN "TypeError"
    ELSE "none"

(* -------------------------- CStruct.from_bytes ----------------------- *)
RECURSIVE LittleEndian(_)
LittleEndian(bytes) ==
    IF bytes = <<>> THEN 0 ELSE Head(bytes) + 256 * LittleEndian(Tail(bytes))

RECURSIVE BigEndian(_, _)
BigEndian(bytes, acc) ==
    IF bytes = <<>> THEN acc ELSE BigEndian(Tail(bytes), 256 * acc + Head(bytes))

RECURSIVE Pow2(_)
Pow2(n) == IF n = 0 THEN 1 ELSE 2 * Pow2(n - 1)

\* two's complement reading of an unsigned value of the given byte size
Signed(v, size) ==
    IF v >= Pow2(8 * size - 1) THEN v - Pow2(8 * size) ELSE v

\* a decoding that reads the most significant byte first
UnpackValueBigEndian(code, bytes) ==
    IF code \in {"b", "h", "i"} THEN Signed(BigEndian(bytes, 0), Len(bytes))
    ELSE BigEndian(bytes, 0)

\* struct.unpack's decoding of one value code of a '<' format
UnpackValue(code, bytes) ==
    IF code \in {"b", "h", "i"} THEN Signed(LittleEndian(bytes), Len(bytes))
    ELSE LittleEndian(bytes)

RECURSIVE Unpack(_, _, _)
\* struct.unpack(fmt, data) for len(data) = calcsize(fmt): pad bytes are
\* skipped, every other code yields one value
Unpack(fmt, data, pos) ==
    IF fmt = <<>> THEN <<>>
    ELSE IF Head(fmt) = "x" THEN Unpack(Tail(fmt), data, pos + 1)
    ELSE LET size == CodeSize(Head(fmt))
         IN  <<UnpackValue(Head(fmt), SubSeq(data, pos + 1, pos + size))>>
                 \o Unpack(Tail(fmt), data, pos + size)

\* instances: a CType instance holds a value, a CStruct instance its fields
CTypeInstance(t, value) ==
    [kind |-> "CType", ctype |-> t, cls |-> 0, value |-> value,
     fields |-> <<>>]
CStructInstance(c, values) ==
    [kind |-> "CStruct", ctype |-> "", cls |-> c, value |-> 0,
     fields |-> values]
NoInstance ==
    [kind |-> "none", ctype |-> "", cls |-> 0, value |-> 0, fields |-> <<>>]

RECURSIVE FromUnpacked(_, _, _)
RECURSIVE FromUnpackedLoop(_, _, _, _)
\* _from_unpacked: the instance and what is left of the iterator
FromUnpacked(unpacked, c, reg) ==
    LET r == FromUnpackedLoop(unpacked, reg[c].fields, <<>>, reg)
    IN  [instance |-> CStructInstance(c, r.values), rest |-> r.rest]

\* the loop of _from_unpacked over get_type_hints(struct_cls).items()
FromUnpackedLoop(unpacked, fields, values, reg) ==
    IF fields = <<>> THEN [values |-> values, rest |-> unpacked]
    ELSE LET t == Head(fields).type
         IN  IF t.kind = "CType"
             THEN FromUnpackedLoop(
                      Tail(unpacked), Tail(fields),
                      Append(values, CTypeInstance(t.ctype, Head(unpacked))),
                      reg)
             ELSE IF t.kind = "CStruct"
             THEN LET r == FromUnpacked(unpacked, t.cls, reg)
                  IN  FromUnpackedLoop(r.rest, Tail(fields),
                                       Append(values, r.instance), reg)
             ELSE FromUnpackedLoop(unpacked, Tail(fields), values, reg)

\* a from_bytes without the length assertion (as under python -O)
FromBytesNoAssert(c, data, reg) ==
    IF Len(data) # CalcSize(reg[c].format)
    THEN [raised |-> "struct.error", result |-> NoInstance]
    ELSE [raised |-> "none",
          result |-> FromUnpacked(Unpack(Tail(reg[c].format), data, 0),
                                  c, reg).instance]

\* cls.from_bytes(data): the exception raised and the instance returned
FromBytes(c, data, reg) ==
    IF ~(Len(data) >= reg[c].size)
    THEN [raised |-> "AssertionError", result |-> NoInstance]
    ELSE IF Len(data) # CalcSize(reg[c].format)
    THEN [raised |-> "struct.error", result |-> NoInstance]
    ELSE [raised |-> "none",
          result |-> FromUnpacked(Unpack(Tail(reg[c].format), data, 0),
                                  c, reg).instance]

(* ------------------------- annotations.py ----------------------------- *)
LowerChars == <<"a", "b", "c", "d", "e", "f", "g", "h", "i", "j", "k", "l",
                "m", "n", "o", "p", "q", "r", "s", "t", "u", "v", "w", "x",
                "y", "z">>
UpperChars == <<"A", "B", "C", "D", "E", "F", "G", "H", "I", "J", "K", "L",
                "M", "N", "O", "P", "Q", "R", "S", "T", "U", "V", "W", "X",
                "Y", "Z">>

UpperChar(ch) ==
    IF \E i \in 1..Len(LowerChars) : LowerChars[i] = ch
    THEN UpperChars[CHOOSE i \in 1..Len(LowerChars) : LowerChars[i] = ch]
    ELSE ch

\* a str.upper that changes nothing
UpperForgotten(s) == s

\* str.upper
Upper(s) == [i \in 1..Len(s) |-> UpperChar(s[i])]

RECURSIVE HexDigits(_)
\* the lowercase hexadecimal digits of n >= 0, no leading zeros
HexDigits(n) == IF n < 16 THEN <<DigitChars[n + 1]>>
                ELSE HexDigits(n \div 16) \o <<DigitChars[(n % 16) + 1]>>

\* f'{n:02X}'
Hex02X(n) ==
    LET digits == Upper(HexDigits(n))
    IN  Repeat(<<"0">>, 2 - Len(digits)) \o digits

\* a max() that returns the length of the first string
FirstLen(strs) == Len(strs[1])

RECURSIVE MaxLen(_)
\* max(len(s) for s in strs) of a non-empty list
MaxLen(strs) ==
    IF Len(strs) = 1 THEN Len(strs[1])
    ELSE Max(Len(Head(strs)), MaxLen(Tail(strs)))

\* str.center(width): the odd space goes left when the width is odd
Center(s, width) ==
    IF Len(s) >= width THEN s
    ELSE LET marg == width - Len(s)
             left == (marg \div 2)
                         + (IF marg % 2 = 1 /\ width % 2 = 1 THEN 1 ELSE 0)
         IN  Repeat(<<" ">>, left) \o s \o Repeat(<<" ">>, marg - left)

\* AnnotationType.get_annotations
GetAnnotationTexts(annotation_type, data) ==
    CASE annotation_type = "NAME" ->
             [i \in 1..Len(data) |-> Upper(data[i].name)]
      [] annotation_type = "OFFSET" ->
             [i \in 1..Len(data) |->
                 <<"O", "f", "f", "s", "e", "t", ":", " ", "0", "x">>
                     \o Hex02X(data[i].offset)]
      [] annotation_type = "SIZE" ->
             [i \in 1..Len(data) |->
                 <<"S", "i", "z", "e", ":", " ", "0", "x">>
                     \o Hex02X(data[i].size)]
      [] OTHER -> [i \in 1..Len(data) |-> <<>>]

Tabs(n) == Repeat(<<"\t">>, n)

\* AnnotationPosition.place_annotations; max() of no annotation raises
PlaceAnnotations(position, annotations, indentation) ==
    IF position = "INLINE"
    THEN IF annotations = <<>>
         THEN [raised |-> "ValueError", placed |-> <<>>]
         ELSE LET longest_annotation == MaxLen(annotations)
              IN  [raised |-> "none",
                   placed |->
                       [i \in 1..Len(annotations) |->
                           Tabs(indentation) \o <<"/", "*", " ">>
                               \o Center(annotations[i], longest_annotation)
                               \o <<" ", "*", "/", " ">>]]
    ELSE [raised |-> "none",
          placed |->
              [i \in 1..Len(annotations) |->
                  (IF i > 1 THEN <<"\n">> ELSE <<>>)
                      \o Tabs(indentation) \o <<"/", "/", " ">>
                      \o annotations[i] \o <<"\n">> \o Tabs(indentation)]]

(* ------------------------- CStruct.formatted_c ------------------------ *)
\* CStruct._get_annotations
GetAnnotations(cl, annotation_type, position, indentation) ==
    IF annotation_type = "NONE"
    THEN [raised |-> "none",
          placed |-> [i \in 1..Len(cl.annotation_data) |-> Tabs(indentation)]]
    ELSE PlaceAnnotations(
             position,
             GetAnnotationTexts(annotation_type, cl.annotation_data),
             indentation)

RECURSIVE IterFlatValues(_)
RECURSIVE IterFlatValuesOf(_)
\* _iter_flat_values: the CType instances, depth first in field order
IterFlatValues(obj) == IterFlatValuesOf(obj.fields)
IterFlatValuesOf(values) ==
    IF values = <<>> THEN <<>>
    ELSE IF Head(values).kind = "CType"
    THEN <<Head(values)>> \o IterFlatValuesOf(Tail(values))
    ELSE IF Head(values).kind = "CStruct"
    THEN IterFlatValues(Head(values)) \o IterFlatValuesOf(Tail(values))
    ELSE IterFlatValuesOf(Tail(values))

\* hex(val)
Hex(val) ==
    IF val < 0 THEN <<"-", "0", "x">> \o HexDigits(0 - val)
    ELSE <<"0", "x">> \o HexDigits(val)

\* str.ljust(width)
LJust(s, width) == s \o Repeat(<<" ">>, width - Len(s))

\* str.rjust(width)
RJust(s, width) == Repeat(<<" ">>, width - Len(s)) \o s

\* _justified_hex: split at the 'x', uppercase what follows, right-justify
JustifiedHex(val, width) ==
    LET hex_val == Hex(val)
        x == CHOOSE i \in 1..Len(hex_val) : hex_val[i] = "x"
        pre == SubSeq(hex_val, 1, x - 1)
        suf == SubSeq(hex_val, x + 1, Len(hex_val))
    IN  RJust(pre \o <<"x">> \o Upper(suf), width)

\* a removeprefix that strips nothing
RemovePrefixKept(s, p) == s

\* str.removeprefix
RemovePrefix(s, p) ==
    IF StartsWith(s, p) THEN SubSeq(s, Len(p) + 1, Len(s)) ELSE s

\* a struct is inlined only when fields_per_line exceeds the value count
IsInlineStrict(fields_per_line, n) == fields_per_line > n

\* inline = fields_per_line >= len(aligned_values)
IsInline(fields_per_line, n) == fields_per_line >= n

RECURSIVE ContentLoop(_, _, _, _, _, _, _, _)
\* the loop over enumerate(zip(aligned_values, annotations)), from index i
\* (1-based); returns content
ContentLoop(i, aligned_values, annotations, num_in_row, content, inline, indentation, fields_per_line) ==
    IF i > Len(aligned_values) \/ i > Len(annotations) THEN content
    ELSE LET annotation ==
                 IF num_in_row # 0 \/ inline
                 THEN RemovePrefix(annotations[i], Tabs(indentation))
                 ELSE annotations[i]
             written == content \o annotation \o aligned_values[i]
         IN  IF i < Len(aligned_values)
             THEN IF num_in_row + 1 >= fields_per_line
                  THEN ContentLoop(i + 1, aligned_values, annotations, 0,
                                   written \o <<",", "\n">>, inline,
                                   indentation, fields_per_line)
                  ELSE ContentLoop(i + 1, aligned_values, annotations,
                                   num_in_row + 1, written \o <<",", " ">>,
                                   inline, indentation, fields_per_line)
             ELSE ContentLoop(i + 1, aligned_values, annotations,
                              num_in_row + 1, written, inline, indentation,
                              fields_per_line)

\* self.formatted_c(...): the exception raised and the text returned
FormattedC(self, cl, annotation_type, annotation_position, indentation, fields_per_line_arg) ==
    LET prefix == Tabs(indentation - 1) \o <<"{">>
        suffix == Tabs(indentation - 1) \o <<"}">>
        fields_per_line == Max(fields_per_line_arg, 1)
        annotations == GetAnnotations(cl, annotation_type,
                                      annotation_position, indentation)
        raw_values == IterFlatValues(self)
    IN  IF annotations.raised # "none" \/ raw_values = <<>>
        THEN [raised |-> "ValueError", text |-> <<>>]
        ELSE LET widest_value ==
                     MaxLen([i \in 1..Len(raw_values) |->
                                Hex(raw_values[i].value)])
                 aligned_values ==
                     [i \in 1..Len(raw_values) |->
                         JustifiedHex(raw_values[i].value, widest_value)]
                 inline == IsInline(fields_per_line, Len(aligned_values))
                 content == ContentLoop(1, aligned_values,
                                        annotations.placed, 0, <<>>, inline,
                                        indentation, fields_per_line)
             IN  [raised |-> "none",
                  text |-> IF inline
                           THEN prefix \o <<" ">> \o content
                                       \o <<" ">> \o suffix
                           ELSE prefix \o <<"\n">> \o content
                                       \o <<"\n">> \o suffix]

(* ------------------------------ inputs -------------------------------- *)
\* field names are taken by position
FieldNames == <<"a", "b", "c", "d", "e", "f", "g", "h">>

UserFields(types) == [i \in 1..Len(types) |->
                         [name |-> <<FieldNames[i]>>, type |-> types[i]]]

DeclCTypes == {"UInt8", "Int8", "UInt16", "UInt32"}

FieldTypes(reg) ==
    {CTypeField(t) : t \in DeclCTypes}
        \cup {CStructField(c) : c \in 1..Len(reg)}
        \cup {OtherField}

Declarations(reg) ==
    UNION {[1..n -> FieldTypes(reg)] : n \in 0..MaxFields}

\* byte patterns the buffers are cut from, repeated as far as needed; every
\* fourth byte is below 128, which keeps each 4-byte value within the
\* integers TLC can hold
SampleBytes ==
    << <<17, 255, 34, 34, 51, 5, 128, 0>>,
       <<255, 255, 51, 34, 5, 0, 0, 127>>,
       <<17, 34, 51, 5, 0, 171, 1, 0>> >>

Buffer(sample, n) ==
    [i \in 1..n |-> SampleBytes[sample][((i - 1) % Len(SampleBytes[sample])) + 1]]

BufferLengths(size) ==
    {n \in (size - MaxShort)..(size + MaxExtra) : n >= 0}

AnnotationTypes == {"NONE", "NAME", "OFFSET", "SIZE"}

AnnotationPositions == {"INLINE", "ABOVE"}

(* ------------------------------ actions ------------------------------- *)
Init ==
    /\ registry = <<>>
    /\ last = [op |-> "none"]

\* the class statement  class X(CStruct): <fields>  (op "class") and the
\* class creation of CArray.__class_getitem__ (op "CArray")
Define(op, fields, is_carray) ==
    LET st == FieldLoop(LoopInit, fields, registry)
    IN  /\ last' = [op |-> op, fields |-> fields,
                    raised |-> Raised(st), errors |-> st.errors]
        /\ registry' = IF Raised(st) = "none"
                       THEN Append(registry,
                                   CompiledClass(fields, is_carray, st))
                       ELSE registry

DefineStructUpTo(cap) ==
    /\ Len(registry) < cap
    /\ \E types \in Declarations(registry) :
           Define("class", UserFields(types), FALSE)

\* the annotations of the synthetic class of CArray[elem_type, count]
ArrayFields(elem, count) ==
    [i \in 1..count |-> [name |-> <<"_">> \o DecStr(i - 1), type |-> elem]]

\* CArray[elem_type, count]
MakeArrayUpTo(cap) ==
    /\ Len(registry) < cap
    /\ \E elem \in FieldTypes(registry), count \in 0..MaxCount :
           IF count <= 0 \/ elem.kind = "other"
           THEN /\ last' = [op |-> "CArray", fields |-> <<>>,
                            raised |-> "TypeError", errors |-> <<>>]
                /\ UNCHANGED registry
           ELSE Define("CArray", ArrayFields(elem, count), TRUE)

DefineStruct == DefineStructUpTo(MaxTypes)

MakeArray == MakeArrayUpTo(MaxTypes)

Next == DefineStruct \/ MakeArray

Spec == Init /\ [][Next]_vars

\* a call leaves the registry as it is, so every pair of a registry and a
\* call is reached by behaviours that make their call last
NoCallYet == last.op \in {"none", "class", "CArray"}

\* cls.from_bytes(data)
CallFromBytes ==
    /\ NoCallYet
    /\ \E c \in 1..Len(registry), sample \in 1..Len(SampleBytes) :
        \E n \in BufferLengths(registry[c].size) :
            LET data == Buffer(sample, n)
                r == FromBytes(c, data, registry)
            IN  /\ last' = [op |-> "from_bytes", cls |-> c, data |-> data,
                            raised |-> r.raised, result |-> r.result]
                /\ UNCHANGED registry

DefineParsedStruct == DefineStructUpTo(MaxCallTypes)

MakeParsedArray == MakeArrayUpTo(MaxCallTypes)

NextParse == DefineParsedStruct \/ MakeParsedArray \/ CallFromBytes

SpecParse == Init /\ [][NextParse]_vars

\* cls.from_bytes(data).formatted_c(annotation_type, annotation_position,
\* indentation, fields_per_line) for a buffer of size() bytes
CallFormattedC ==
    /\ NoCallYet
    /\ \E c \in 1..Len(registry), sample \in 1..Len(SampleBytes) :
        \E annotation_type \in AnnotationTypes,
           annotation_position \in AnnotationPositions,
           indentation \in 0..MaxIndent,
           fields_per_line \in 0..MaxFieldsPerLine :
            LET data == Buffer(sample, registry[c].size)
                self == FromBytes(c, data, registry).result
                r == FormattedC(self, registry[c], annotation_type,
                                annotation_position, indentation,
                                fields_per_line)
            IN  /\ last' = [op |-> "formatted_c", cls |-> c, data |-> data,
                            self |-> self,
                            annotation_type |-> annotation_type,
                            annotation_position |-> annotation_position,
                            indentation |-> indentation,
                            fields_per_line |-> fields_per_line,
                            raised |-> r.raised, text |-> r.text]
                /\ UNCHANGED registry

DefineRenderedStruct == DefineStructUpTo(MaxCallTypes)

MakeRenderedArray == MakeArrayUpTo(MaxCallTypes)

NextRender == DefineRenderedStruct \/ MakeRenderedArray \/ CallFormattedC

SpecRender == Init /\ [][NextRender]_vars

(* ---------------------- rom_utils.lz77_decompress -------------------- *)
\* BytesIO.read(n) at position pos: the bytes that are left, at most n
Read(data, pos, n) ==
    SubSeq(data, pos + 1, IF pos + n <= Len(data) THEN pos + n ELSE Len(data))

\* flags & (0x80 >> i) is not 0
FlagBit(flags, i) == (flags \div Pow2(7 - i)) % 2 = 1

\* the locals of the decompression: the read position of data, the bytes
\* written (bytes_written is their number) and the exception raised
Lz77Init(data) ==
    [pos |-> IF Len(data) < 4 THEN Len(data) ELSE 4, out |-> <<>>,
     raised |-> "none"]

RECURSIVE CopyLoop(_, _, _)
\* for _ in range(n): the byte at bytes_written - displacement - 1 of the
\* buffer is written again; a negative index counts from the end, an index
\* outside the buffer raises IndexError
CopyLoop(st, displacement, n) ==
    IF n = 0 \/ st.raised # "none" THEN st
    ELSE LET bytes_written == Len(st.out)
             index == bytes_written - displacement - 1
             at == IF index < 0 THEN index + bytes_written ELSE index
         IN  IF at < 0 \/ at >= bytes_written
             THEN [st EXCEPT !.raised = "IndexError"]
             ELSE CopyLoop([st EXCEPT !.out = Append(st.out, st.out[at + 1])],
                           displacement, n - 1)

RECURSIVE FlagLoop(_, _, _, _, _)
\* for i in range(8), from i on
FlagLoop(data, st, flags, i, decompressed_length) ==
    IF i = 8 \/ st.raised # "none" THEN st
    ELSE IF Len(st.out) >= decompressed_length THEN st
    ELSE IF ~FlagBit(flags, i)
    THEN LET value == LittleEndian(Read(data, st.pos, 1))
         IN  FlagLoop(data,
                      [st EXCEPT !.pos = st.pos + Len(Read(data, st.pos, 1)),
                                 !.out = Append(st.out, value)],
                      flags, i + 1, decompressed_length)
    ELSE LET value == LittleEndian(Read(data, st.pos, 2))
             displacement == ((value % 16) * 256) + (value \div 256)
             length == (value \div 16) % 16
         IN  FlagLoop(data,
                      CopyLoop(
                          [st EXCEPT
                              !.pos = st.pos + Len(Read(data, st.pos, 2))],
                          displacement, length + 3),
                      flags, i + 1, decompressed_length)

RECURSIVE WhileLoop(_, _, _)
\* while bytes_written < decompressed_length
WhileLoop(data, st, decompressed_length) ==
    IF st.raised # "none" \/ ~(Len(st.out) < decompressed_length) THEN st
    ELSE LET flags == LittleEndian(Read(data, st.pos, 1))
         IN  WhileLoop(data,
                       FlagLoop(data,
                                [st EXCEPT
                                    !.pos = st.pos + Len(Read(data, st.pos, 1))],
                                flags, 0, decompressed_length),
                       decompressed_length)

\* lz77_decompress(data): the exception raised and the bytes returned
Lz77Decompress(data) ==
    LET header == LittleEndian(Read(data, 0, 4))
        magic == header % 256
        decompressed_length == header \div 256
    IN  IF magic # 16
        THEN [raised |-> "AssertionError", result |-> <<>>]
        ELSE LET st == WhileLoop(data, Lz77Init(data), decompressed_length)
             IN  [raised |-> st.raised,
                  result |-> IF st.raised = "none" THEN st.out ELSE <<>>]

\* the bytes the bodies are made of: flag bytes (no pair, a pair second, a
\* pair first), pair bytes (lengths 0 and 1, displacements 0 and 1) and
\* literals
Lz77Bytes == {0, 1, 16, 64, 128, 171}

Lz77Bodies == UNION {[1..n -> Lz77Bytes] : n \in 0..MaxBodyLength}

\* a 4-byte header, with the magic 0x10 or another, and a body
Lz77Inputs ==
    {<<magic, length, 0, 0>> \o body :
        magic \in {16, 17}, length \in 0..MaxDecompressedLength,
        body \in Lz77Bodies}

\* lz77_decompress(data)
CallLz77Decompress ==
    /\ NoCallYet
    /\ \E data \in Lz77Inputs :
           LET r == Lz77Decompress(data)
           IN  /\ last' = [op |-> "lz77_decompress", data |-> data,
                           raised |-> r.raised, result |-> r.result]
               /\ UNCHANGED registry

NextLz77 == CallLz77Decompress

SpecLz77 == Init /\ [][NextLz77]_vars

(* ======================= properties of the layout ===================== *)
RECURSIVE FormatLayout(_, _, _, _)
\* reads a format (without its '<') back: for every value code its byte
\* offset and the number of 'x' that immediately precede it
FormatLayout(fmt, cursor, pad, acc) ==
    IF fmt = <<>> THEN acc
    ELSE IF Head(fmt) = "x"
    THEN FormatLayout(Tail(fmt), cursor + 1, pad + 1, acc)
    ELSE FormatLayout(Tail(fmt), cursor + CodeSize(Head(fmt)), 0,
                      Append(acc, [code |-> Head(fmt), offset |-> cursor,
                                   pad |-> pad]))

LayoutOf(cl) == FormatLayout(Tail(cl.format), 0, 0, <<>>)

\* number of annotation entries a field contributes
LeafCount(f) ==
    IF f.type.kind = "CType" THEN 1
    ELSE Len(registry[f.type.cls].annotation_data)

RECURSIVE LeavesBefore(_, _)
LeavesBefore(fields, i) ==
    IF i <= 1 THEN 0
    ELSE LeavesBefore(fields, i - 1) + LeafCount(fields[i - 1])

\* index of the first annotation entry of field i
FirstLeaf(cl, i) == LeavesBefore(cl.fields, i) + 1

Classes == {registry[c] : c \in 1..Len(registry)}

\* C1: in every compiled struct the k-th value code of the format sits at
\* the offset and has the size of the k-th annotation entry, every entry's
\* offset is a multiple of its size, and a primitive field of size s met at
\* cursor o has exactly (s - o % s) % s 'x' before its code.
C1_NaturalAlignment ==
    \A cl \in Classes :
        LET lay == LayoutOf(cl)
            ann == cl.annotation_data
        IN  /\ Len(lay) = Len(ann)
            /\ \A k \in 1..Len(ann) :
                   /\ ann[k].offset = lay[k].offset
                   /\ ann[k].size = CodeSize(lay[k].code)
                   /\ ann[k].offset % ann[k].size = 0
            /\ \A i \in 1..Len(cl.fields) :
                   cl.fields[i].type.kind = "CType" =>
                       LET k == FirstLeaf(cl, i)
                           s == CTypeSize(cl.fields[i].type.ctype)
                           o == lay[k].offset - lay[k].pad
                       IN  /\ ann[k].size = s
                           /\ lay[k].pad = (s - (o % s)) % s

\* a UInt8 followed by a UInt32 compiled to '<BxxxI', and a struct holding
\* a nested struct after a padded primitive exists
C1_Witness ==
    /\ \E cl \in Classes : cl.format = <<"<", "B", "x", "x", "x", "I">>
    /\ \E cl \in Classes :
           /\ \E i \in 1..Len(cl.fields) : cl.fields[i].type.kind = "CStruct"
           /\ \E k \in 1..Len(cl.format) : cl.format[k] = "x"

MemberAlignment(f) ==
    IF f.type.kind = "CType" THEN CTypeSize(f.type.ctype)
    ELSE registry[f.type.cls].alignment

RECURSIVE MaxMemberAlignment(_)
MaxMemberAlignment(fields) ==
    IF fields = <<>> THEN 0
    ELSE Max(MemberAlignment(Head(fields)), MaxMemberAlignment(Tail(fields)))

ParentEntry(cl, i, m) == cl.annotation_data[FirstLeaf(cl, i) + m - 1]

\* C4: where field i of a struct is a synthetic array, the entries of the
\* array's j-th element (0-based) are named <field>_j for a primitive
\* element and <field>_j_<inner> for a struct element with named leaves.
C4_ArrayEntryNames ==
    \A cl \in Classes :
        \A i \in 1..Len(cl.fields) :
            (cl.fields[i].type.kind = "CStruct"
                 /\ registry[cl.fields[i].type.cls].is_carray) =>
                LET T == registry[cl.fields[i].type.cls]
                    parent == cl.fields[i].name
                IN  \A j \in 1..Len(T.fields) :
                        \A m \in FirstLeaf(T, j)..(FirstLeaf(T, j + 1) - 1) :
                            LET inner == T.annotation_data[m].name
                                idx == DecStr(j - 1)
                            IN  /\ T.fields[j].type.kind = "CType" =>
                                    ParentEntry(cl, i, m).name =
                                        parent \o <<"_">> \o idx
                                /\ (T.fields[j].type.kind = "CStruct"
                                        /\ ~StartsWith(inner, <<"_">>)) =>
                                    ParentEntry(cl, i, m).name =
                                        parent \o <<"_">> \o idx
                                               \o <<"_">> \o inner

RECURSIVE OffendingNames(_)
\* the names of the fields that are neither CType nor CStruct subclasses
OffendingNames(fields) ==
    IF fields = <<>> THEN <<>>
    ELSE IF Head(fields).type.kind = "other"
    THEN <<Head(fields).name>> \o OffendingNames(Tail(fields))
    ELSE OffendingNames(Tail(fields))

\* C8: a class statement with at least one field that is neither a CType
\* nor a CStruct subclass raises TypeError, and its message has one line
\* for every such field.
C8_InvalidFieldsRaiseTypeError ==
    (last.op = "class" /\ OffendingNames(last.fields) # <<>>) =>
        /\ last.raised = "TypeError"
        /\ last.errors = OffendingNames(last.fields)

(* ===================== properties of from_bytes ======================= *)
RECURSIVE IterFlat(_)
RECURSIVE IterFlatSeq(_)
\* the CType instances of an instance, depth first in field order
IterFlat(inst) ==
    IF inst.kind = "CType" THEN <<inst>> ELSE IterFlatSeq(inst.fields)
IterFlatSeq(insts) ==
    IF insts = <<>> THEN <<>>
    ELSE IterFlat(Head(insts)) \o IterFlatSeq(Tail(insts))

RECURSIVE Mirrors(_, _)
\* the instance has the shape of class c's declaration
Mirrors(inst, c) ==
    /\ inst.kind = "CStruct"
    /\ inst.cls = c
    /\ Len(inst.fields) = Len(registry[c].fields)
    /\ \A i \in 1..Len(inst.fields) :
           LET t == registry[c].fields[i].type
           IN  IF t.kind = "CType"
               THEN inst.fields[i].kind = "CType"
                        /\ inst.fields[i].ctype = t.ctype
               ELSE Mirrors(inst.fields[i], t.cls)

RECURSIVE ByteSum(_, _, _)
\* data[offset] + 256 * data[offset + 1] + ... over size bytes
ByteSum(data, offset, size) ==
    IF size = 0 THEN 0
    ELSE data[offset + 1] + 256 * ByteSum(data, offset + 1, size - 1)

\* the little-endian integer of type t held in data[offset : offset + size]
IntegerAt(data, offset, size, t) ==
    LET u == ByteSum(data, offset, size)
    IN  IF t \in {"Int8", "Int16", "Int32"} /\ data[offset + size] >= 128
        THEN u - Pow2(8 * size)
        ELSE u

\* C3: from_bytes returns an instance for every buffer at least as long
\* as the struct's size().
C3_LongerBufferAccepted ==
    (last.op = "from_bytes"
         /\ Len(last.data) >= registry[last.cls].size) =>
        /\ last.raised = "none"
        /\ last.result.kind = "CStruct"

\* C5: for a buffer of exactly size() bytes from_bytes returns an instance
\* that mirrors the declaration and whose k-th leaf, depth first, is of the
\* size of the k-th annotation entry and holds the little-endian integer of
\* the bytes at that entry's offset.
C5_LeavesDecodeTableBytes ==
    (last.op = "from_bytes"
         /\ Len(last.data) = registry[last.cls].size) =>
        LET ann == registry[last.cls].annotation_data
            leaves == IterFlat(last.result)
        IN  /\ last.raised = "none"
            /\ Mirrors(last.result, last.cls)
            /\ Len(leaves) = Len(ann)
            /\ \A k \in 1..Len(ann) :
                   /\ CTypeSize(leaves[k].ctype) = ann[k].size
                   /\ leaves[k].value =
                          IntegerAt(last.data, ann[k].offset, ann[k].size,
                                    leaves[k].ctype)

\* (UInt8, (UInt16, UInt8)) read from 11 FF 22 22 33: the pad byte FF is
\* skipped; and an Int8 read from FF is negative inside a nested struct
C5_Witness ==
    /\ last.op = "from_bytes"
    /\ last.raised = "none"
    /\ registry[last.cls].format = <<"<", "B", "x", "H", "B">>
    /\ Len(last.result.fields) = 2
    /\ last.result.fields[2].kind = "CStruct"
    /\ last.data = <<17, 255, 34, 34, 51>>
    /\ last.result.fields[1].value = 17
    /\ last.result.fields[2].fields[1].value = 8738

\* C6: from_bytes on a buffer shorter than size() raises AssertionError
\* and returns no instance.
C6_ShortBufferRejected ==
    (last.op = "from_bytes"
         /\ Len(last.data) < registry[last.cls].size) =>
        /\ last.raised = "AssertionError"
        /\ last.result = NoInstance

\* (UInt8, UInt16) given 3 bytes, one short
C6_Witness ==
    /\ last.op = "from_bytes"
    /\ registry[last.cls].format = <<"<", "B", "x", "H">>
    /\ Len(last.data) = 3
    /\ last.raised = "AssertionError"

(* ===================== properties of formatted_c ====================== *)
UpperDigitChars == <<"0", "1", "2", "3", "4", "5", "6", "7", "8", "9",
                     "A", "B", "C", "D", "E", "F">>

RECURSIVE UpperHexDigits(_)
\* the uppercase hexadecimal digits of n >= 0, no leading zeros
UpperHexDigits(n) ==
    IF n < 16 THEN <<UpperDigitChars[n + 1]>>
    ELSE UpperHexDigits(n \div 16) \o <<UpperDigitChars[(n % 16) + 1]>>

Magnitude(v) == IF v < 0 THEN 0 - v ELSE v

\* '0x' and the uppercase digits, nothing before them
PlainLiteral(v) == <<"0", "x">> \o UpperHexDigits(Magnitude(v))

\* '0x' and the uppercase digits, after a '-' for a negative value
SignedLiteral(v) == (IF v < 0 THEN <<"-">> ELSE <<>>) \o PlainLiteral(v)

\* '0x' and 2 uppercase digits per byte of the leaf's type
ZeroPaddedLiteral(leaf) ==
    LET size == CTypeSize(leaf.ctype)
        digits == UpperHexDigits(leaf.value)
    IN  <<"0", "x">> \o Repeat(<<"0">>, 2 * size - Len(digits)) \o digits

Spaces(n) == Repeat(<<" ">>, n)

RECURSIVE Widest(_)
Widest(strs) ==
    IF strs = <<>> THEN 0 ELSE Max(Len(Head(strs)), Widest(Tail(strs)))

RECURSIVE JoinWith(_, _)
JoinWith(strs, sep) ==
    IF strs = <<>> THEN <<>>
    ELSE IF Len(strs) = 1 THEN strs[1]
    ELSE strs[1] \o sep \o JoinWith(Tail(strs), sep)

Rendered == last.op = "formatted_c" /\ last.raised = "none"

Leaves == IterFlat(last.self)

\* a rendering with no annotations, indentation 1, one field per line
PlainRendering ==
    /\ Rendered
    /\ last.annotation_type = "NONE"
    /\ last.indentation = 1
    /\ last.fields_per_line = 1

\* C2 as claimed: such a rendering is '{\n', the leaves' literals ('0x' and
\* uppercase digits, nothing before them) each after one tab and joined by
\* ',\n', then '\n}'.
C2_PlainLiteralsPerLine ==
    PlainRendering =>
        last.text =
            <<"{", "\n">>
                \o JoinWith([k \in 1..Len(Leaves) |->
                                <<"\t">> \o PlainLiteral(Leaves[k].value)],
                            <<",", "\n">>)
                \o <<"\n", "}">>

\* C2 as amended: for at least two leaves, each literal ('0x' and uppercase
\* digits, after '-' if negative) is preceded by spaces up to the length of
\* the longest literal.
C2_JustifiedLiteralsPerLine ==
    (PlainRendering /\ Len(Leaves) >= 2) =>
        LET literals == [k \in 1..Len(Leaves) |->
                            SignedLiteral(Leaves[k].value)]
            W == Widest(literals)
        IN  last.text =
                <<"{", "\n">>
                    \o JoinWith([k \in 1..Len(Leaves) |->
                                    <<"\t">> \o Spaces(W - Len(literals[k]))
                                             \o literals[k]],
                                <<",", "\n">>)
                    \o <<"\n", "}">>

\* (UInt8 a, UInt16 b) from 11 FF 22 22 renders as '{\n\t  0x11,\n\t0x2222\n}'
C2_Witness ==
    /\ PlainRendering
    /\ registry[last.cls].format = <<"<", "B", "x", "H">>
    /\ last.data = <<17, 255, 34, 34>>
    /\ last.text = <<"{", "\n", "\t", " ", " ", "0", "x", "1", "1", ",", "\n",
                     "\t", "0", "x", "2", "2", "2", "2", "\n", "}">>

RECURSIVE ScanValueTokens(_, _, _, _, _)
\* the words (runs without blank, tab, newline, brace or comma) that stand
\* immediately before each comma and before the closing brace
ScanValueTokens(text, i, word, previous, acc) ==
    IF i > Len(text) THEN acc
    ELSE LET ch == text[i]
             done == IF word # <<>> THEN word ELSE previous
         IN  IF ch \in {",", "}"}
             THEN ScanValueTokens(text, i + 1, <<>>, <<>>, Append(acc, done))
             ELSE IF ch \in {" ", "\t", "\n", "{"}
             THEN ScanValueTokens(text, i + 1, <<>>, done, acc)
             ELSE ScanValueTokens(text, i + 1, Append(word, ch), previous,
                                  acc)

ValueTokens(text) == ScanValueTokens(text, 1, <<>>, <<>>, <<>>)

\* C9 as claimed: every leaf is written as '0x' and uppercase digits,
\* zero-padded to 2 digits per byte of its type (stated here for the
\* leaves that hold no negative value).
C9_ZeroPaddedLiterals ==
    Rendered =>
        /\ Len(ValueTokens(last.text)) = Len(Leaves)
        /\ \A k \in 1..Len(Leaves) :
               Leaves[k].value >= 0 =>
                   ValueTokens(last.text)[k] = ZeroPaddedLiteral(Leaves[k])

\* C9 as amended: every leaf is written as '0x' and the uppercase digits
\* of its value without leading zeros, after '-' if the value is negative.
C9_UnpaddedLiterals ==
    Rendered =>
        ValueTokens(last.text) =
            [k \in 1..Len(Leaves) |-> SignedLiteral(Leaves[k].value)]

\* a UInt16 holding 5 is written '0x5', beside a value with a letter digit
C9_Witness ==
    /\ Rendered
    /\ \E k \in 1..Len(Leaves) :
           /\ Leaves[k].ctype = "UInt16"
           /\ Leaves[k].value = 5
           /\ ValueTokens(last.text)[k] = <<"0", "x", "5">>
    /\ \E k \in 1..Len(Leaves) :
           \E i \in 1..Len(ValueTokens(last.text)[k]) :
               ValueTokens(last.text)[k][i] \in {"A", "B", "C", "D", "E", "F"}

HasNewline(text) == \E i \in 1..Len(text) : text[i] = "\n"

CountOf(text, ch) == Cardinality({i \in 1..Len(text) : text[i] = ch})

EndsWith(s, p) ==
    Len(s) >= Len(p) /\ SubSeq(s, Len(s) - Len(p) + 1, Len(s)) = p

\* fields_per_line (at least 1) covers all the leaves
WholeStructPerLine == Max(last.fields_per_line, 1) >= Len(Leaves)

OneLineForm ==
    /\ StartsWith(last.text, Tabs(last.indentation - 1) \o <<"{", " ">>)
    /\ EndsWith(last.text, <<" ">> \o Tabs(last.indentation - 1) \o <<"}">>)
    /\ CountOf(last.text, ",") = Len(Leaves) - 1

MultiLineForm ==
    /\ StartsWith(last.text, Tabs(last.indentation - 1) \o <<"{", "\n">>)
    /\ EndsWith(last.text, <<"\n">> \o Tabs(last.indentation - 1) \o <<"}">>)

\* C10 as claimed: with fields_per_line >= the number of leaves the text
\* is '{ v1, v2, ... }' without a newline, whatever the annotations;
\* otherwise it is a multi-line block.
C10_InlineHasNoNewline ==
    Rendered =>
        IF WholeStructPerLine
        THEN OneLineForm /\ ~HasNewline(last.text)
        ELSE MultiLineForm

\* C10 as amended: the text has no newline when, besides, the annotations
\* are of type NONE or placed INLINE.
C10_InlineHasNoNewlineUnlessAbove ==
    Rendered =>
        IF WholeStructPerLine
        THEN /\ OneLineForm
             /\ (last.annotation_type = "NONE"
                     \/ last.annotation_position = "INLINE") =>
                    ~HasNewline(last.text)
        ELSE MultiLineForm

\* two leaves on one line with offset annotations, fields_per_line = 2
C10_Witness ==
    /\ Rendered
    /\ last.fields_per_line = 2
    /\ Len(Leaves) = 2
    /\ last.annotation_type = "OFFSET"
    /\ last.annotation_position = "INLINE"
    /\ ~HasNewline(last.text)

\* the literals as they are written: right-justified to the longest one
AlignedLiterals ==
    LET literals == [k \in 1..Len(Leaves) |-> SignedLiteral(Leaves[k].value)]
    IN  [k \in 1..Len(Leaves) |->
            Spaces(Widest(literals) - Len(literals[k])) \o literals[k]]

\* ceil(n / k) for k >= 1
RowCount(n, k) == (n + k - 1) \div k

\* the j-th group of k consecutive values, the last group holding the rest
Row(values, j, k) ==
    SubSeq(values, (j - 1) * k + 1,
           IF j * k <= Len(values) THEN j * k ELSE Len(values))

\* a rendering without annotations whose fields_per_line (at least 1) is
\* below the number of leaves
WrappedRendering ==
    /\ Rendered
    /\ last.annotation_type = "NONE"
    /\ Max(last.fields_per_line, 1) < Len(Leaves)

\* C11: a rendering of n leaves without annotations and with k =
\* max(fields_per_line, 1) < n is the opening brace line, ceil(n / k) content
\* lines and the closing brace line; the j-th content line is the
\* indentation and the j-th group of k values in flattened order (the last
\* group holding the rest) joined by ', '; the content lines are joined by
\* ',\n', so that all but the last end with ',' and no comma follows the
\* last leaf.
C11_WrappedRows ==
    WrappedRendering =>
        LET k == Max(last.fields_per_line, 1)
            rows == RowCount(Len(Leaves), k)
            lines == [j \in 1..rows |->
                         Tabs(last.indentation)
                             \o JoinWith(Row(AlignedLiterals, j, k),
                                         <<",", " ">>)]
        IN  /\ last.text =
                   Tabs(last.indentation - 1) \o <<"{", "\n">>
                       \o JoinWith(lines, <<",", "\n">>)
                       \o <<"\n">> \o Tabs(last.indentation - 1) \o <<"}">>
            /\ CountOf(last.text, "\n") = rows + 1
            /\ CountOf(last.text, ",") = Len(Leaves) - 1

\* three 1-byte leaves from 11 FF 22 with fields_per_line = 2: two content
\* lines, of 2 values and of 1 value
C11_Witness ==
    /\ WrappedRendering
    /\ last.fields_per_line = 2
    /\ last.indentation = 1
    /\ Len(Leaves) = 3
    /\ last.text = <<"{", "\n", "\t", "0", "x", "1", "1", ",", " ",
                     "0", "x", "F", "F", ",", "\n",
                     "\t", "0", "x", "2", "2", "\n", "}">>

RECURSIVE ScanValueEnds(_, _, _, _)
\* for each comma and for the closing brace, the position of the last
\* character before it that is no blank, tab, newline or brace
ScanValueEnds(text, i, end, acc) ==
    IF i > Len(text) THEN acc
    ELSE IF text[i] \in {",", "}"}
    THEN ScanValueEnds(text, i + 1, end, Append(acc, end))
    ELSE IF text[i] \in {" ", "\t", "\n", "{"}
    THEN ScanValueEnds(text, i + 1, end, acc)
    ELSE ScanValueEnds(text, i + 1, i, acc)

ValueEnds(text) == ScanValueEnds(text, 1, 0, <<>>)

\* for each value, the width characters of the text that end with it
ValueStrings(text, width) ==
    LET ends == ValueEnds(text)
    IN  [k \in 1..Len(ends) |-> SubSeq(text, ends[k] - width + 1, ends[k])]

RECURSIVE SplitLines(_, _, _, _)
\* str.splitlines of a text that does not end with a newline
SplitLines(text, i, line, acc) ==
    IF i > Len(text) THEN Append(acc, line)
    ELSE IF text[i] = "\n"
    THEN SplitLines(text, i + 1, <<>>, Append(acc, line))
    ELSE SplitLines(text, i + 1, Append(line, text[i]), acc)

\* the lines between the two brace lines
ContentLines(text) ==
    LET lines == SplitLines(text, 1, <<>>, <<>>)
    IN  SubSeq(lines, 2, Len(lines) - 1)

RECURSIVE StripTabs(_)
StripTabs(line) ==
    IF line # <<>> /\ Head(line) = "\t" THEN StripTabs(Tail(line)) ELSE line

StripComma(line) ==
    IF EndsWith(line, <<",">>) THEN SubSeq(line, 1, Len(line) - 1) ELSE line

\* the content lines without indentation and trailing comma are equally long
ContentLinesEquallyLong ==
    LET lines == ContentLines(last.text)
        lengths == [i \in 1..Len(lines) |->
                       Len(StripComma(StripTabs(lines[i])))]
    IN  \A i \in 1..Len(lines) : lengths[i] = lengths[1]

OneFieldPerLine == Max(last.fields_per_line, 1) = 1

\* C12 as claimed: in every rendering each leaf is written as '0x' and its
\* uppercase digits, right-justified with spaces to the longest such
\* string of the struct, and with one field per line all the lines between
\* the brace lines, indentation and trailing comma apart, are equally long.
C12_PlainJustifiedValues ==
    Rendered =>
        LET literals == [k \in 1..Len(Leaves) |->
                            PlainLiteral(Leaves[k].value)]
            W == Widest(literals)
        IN  /\ ValueStrings(last.text, W) =
                   [k \in 1..Len(Leaves) |->
                       Spaces(W - Len(literals[k])) \o literals[k]]
            /\ OneFieldPerLine => ContentLinesEquallyLong

\* C12 as amended: each leaf is written as '0x' and its uppercase digits,
\* after '-' for a negative value, right-justified with spaces to the
\* longest such string of the struct; with one field per line the lines
\* between the brace lines are equally long when the annotations are of
\* type NONE or placed INLINE.
C12_SignedJustifiedValues ==
    Rendered =>
        LET literals == [k \in 1..Len(Leaves) |->
                            SignedLiteral(Leaves[k].value)]
            W == Widest(literals)
        IN  /\ ValueStrings(last.text, W) =
                   [k \in 1..Len(Leaves) |->
                       Spaces(W - Len(literals[k])) \o literals[k]]
            /\ (OneFieldPerLine
                    /\ (last.annotation_type = "NONE"
                            \/ last.annotation_position = "INLINE")) =>
                   ContentLinesEquallyLong

\* (Int8 a, UInt16 b) from FF FF 33 22 with inline name annotations, one
\* field per line: '  -0x1' above '0x2233'
C12_Witness ==
    /\ Rendered
    /\ last.fields_per_line = 1
    /\ last.annotation_type = "NAME"
    /\ last.annotation_position = "INLINE"
    /\ Len(Leaves) = 2
    /\ Leaves[1].value = -1
    /\ Leaves[2].value = 8755
    /\ ValueStrings(last.text, 6) =
           << <<" ", " ", "-", "0", "x", "1">>,
              <<"0", "x", "2", "2", "3", "3">> >>
    /\ Len(ContentLines(last.text)) = 2

(* ================== properties of the annotation table ================ *)
\* the table of a nested type with every offset shifted by p
ShiftedEntries(T, p) ==
    [m \in 1..Len(T.annotation_data) |->
        AnnotationData(T.annotation_data[m].name,
                       T.annotation_data[m].size,
                       p + T.annotation_data[m].offset)]

\* the byte offset at which field i of cl starts: that of its first value
\* code in the format
FieldStart(cl, i) == LayoutOf(cl)[FirstLeaf(cl, i)].offset

\* in every compiled struct the entries of a field of a nested struct type
\* that is no synthetic array are the nested table's, shifted by the
\* field's start, and the table holds nothing but its fields' entries
NestedTablesFlattened ==
    \A cl \in Classes :
        /\ Len(cl.annotation_data) =
               LeavesBefore(cl.fields, Len(cl.fields) + 1)
        /\ \A i \in 1..Len(cl.fields) :
               (cl.fields[i].type.kind = "CStruct"
                    /\ ~registry[cl.fields[i].type.cls].is_carray) =>
                   LET T == registry[cl.fields[i].type.cls]
                       k == FirstLeaf(cl, i)
                   IN  SubSeq(cl.annotation_data, k,
                              k + Len(T.annotation_data) - 1)
                           = ShiftedEntries(T, FieldStart(cl, i))

\* a step leaves the table of every class defined before it as it was
TablesKept ==
    /\ Len(registry') >= Len(registry)
    /\ \A c \in 1..Len(registry) :
           registry'[c].annotation_data = registry[c].annotation_data

\* C13: where a field of a struct is of a nested struct type that is no
\* synthetic array and starts at offset p, the struct's table holds at the
\* field's position, in the nested table's order, one entry per nested
\* entry, of the same name and size and of offset p plus the nested
\* offset; and defining a struct leaves the tables of the earlier types
\* unchanged.
C13_NestedTableShifted ==
    []NestedTablesFlattened /\ [][TablesKept]_vars

\* (UInt8 a, E b) with E = (UInt16 a, UInt8 b): E starts at 2, its entries
\* (a, 2, 0) and (b, 1, 2) appear as (a, 2, 2) and (b, 1, 4)
C13_Witness ==
    \E cl \in Classes :
        /\ Len(cl.fields) = 2
        /\ cl.fields[2].type.kind = "CStruct"
        /\ ~registry[cl.fields[2].type.cls].is_carray
        /\ registry[cl.fields[2].type.cls].annotation_data =
               <<AnnotationData(<<"a">>, 2, 0), AnnotationData(<<"b">>, 1, 2)>>
        /\ cl.annotation_data =
               <<AnnotationData(<<"a">>, 1, 0), AnnotationData(<<"a">>, 2, 2),
                 AnnotationData(<<"b">>, 1, 4)>>

RECURSIVE SumOfSizes(_)
SumOfSizes(entries) ==
    IF entries = <<>> THEN 0
    ELSE Head(entries).size + SumOfSizes(Tail(entries))

\* C14: for every compiled struct with at least one field, size() is the
\* sum of the leaves' sizes plus the number of 'x' in the format, and is
\* the offset plus the size of the last annotation entry: nothing follows
\* the last leaf.
C14_NoTrailingPadding ==
    \A cl \in Classes :
        cl.fields # <<>> =>
            LET ann == cl.annotation_data
            IN  /\ ann # <<>>
                /\ cl.size = SumOfSizes(ann) + CountOf(cl.format, "x")
                /\ cl.size = ann[Len(ann)].offset + ann[Len(ann)].size

\* ((UInt8 a, UInt32 b) a, UInt8 b) compiles to '<BxxxIB': size 9 with
\* alignment 4, the last entry being (b, 1, 8)
C14_Witness ==
    \E cl \in Classes :
        /\ cl.format = <<"<", "B", "x", "x", "x", "I", "B">>
        /\ Len(cl.fields) = 2
        /\ cl.fields[1].type.kind = "CStruct"
        /\ cl.size = 9
        /\ cl.alignment = 4
        /\ cl.size % cl.alignment # 0
        /\ cl.annotation_data[3] = AnnotationData(<<"b">>, 1, 8)

(* =================== properties of lz77_decompress ==================== *)
\* the decompressed length stored in the upper 3 bytes of the header
DeclaredLength(data) == data[2] + 256 * data[3] + 65536 * data[4]

\* C15 (stated for the calls that return): for an input whose first byte
\* is 0x10, lz77_decompress returns exactly as many bytes as the header
\* declares.
C15_ReturnsDeclaredLength ==
    (last.op = "lz77_decompress"
         /\ last.data[1] = 16
         /\ last.raised = "none") =>
        Len(last.result) = DeclaredLength(last.data)
====
